---- MODULE Spec2Model ----
(***************************************************************************)
(* Model of the segmentation back end (ProyectoSegmentacion):              *)
(*   - SegmentacionDbService.guardar_segmentacion: the transactional       *)
(*     diff-and-save of a reference's assignment (Postgres, READ           *)
(*     COMMITTED, one connection per repository call);                     *)
(*   - the ingestion jobs and their versioned datasets;                    *)
(*   - the app_cache read path of vista_segmentacion.                      *)
(* Committed tables are the shared variables; what a transaction has       *)
(* written and not yet committed is kept per worker and applied at commit. *)
(***************************************************************************)
EXTENDS Integers, Sequences, FiniteSets, Bags, TLC

\* ------------------------------------------------------------------ bounds
MaxSaves == 3
MaxCorridas == 2
MaxLecturas == 2
MaxTicks == 2
MaxLlamadas == 3

Workers == {"w1", "w2"}
Refs == {"R1"}
\* referenciaSku as it arrives in the payload: a reference, or blank
RefsRaw == Refs \cup {" "}

Linea(l, t, c) == [llave_naval |-> l, talla |-> t, cantidad |-> c]

\* payload["detalle"] values a request may carry
Detalles ==
    { << >>,
      << Linea("S1", "M", 5), Linea("S2", "L", 3) >>,
      << Linea("S1", "M", 7) >>,
      << Linea("S1", "M", 5), Linea("S1", "M", 7) >>,
      << Linea(" ", "M", 5), Linea("S1", "M", 0) >> }

VARIABLES
    \* committed tables
    segmentacion,          \* set of header rows
    segmentacion_detalle,  \* bag of detail rows
    referencias_vistas,    \* set of marker rows (referencia_sku, segmented_at)
    maestra_tiendas_version, \* set of roster version rows
    seq_segmentacion,      \* last value of the id_segmentacion sequence
    reloj,                 \* wall clock; also counts the saves started
    \* per worker: one guardar_segmentacion call
    pc, payload, now, id_version_activa, cands, last_id, desactivadas,
    id_seg, tx,
    \* committed tables of the ingestion jobs
    maestra_tiendas_filas,   \* set of roster rows, each under one version
    maestra_tiendas_actual,  \* set of projection rows, one per llave_naval
    seq_maestra_version,     \* last value of the id_version sequence
    inventario_version,      \* set of inventory version rows
    inventario_existencias,  \* set of inventory rows, each under one version
    seq_inventario_version,  \* last value of id_version_inventario
    corridas,                \* job runs started
    \* per job runner: one run of an ingestion job
    jpc, jtipo, jfuente, jver, jtx, jlote, jtotal,
    \* bookkeeping for the claims, not program state
    antes, solo, repetida, ultimo,
    \* the reference cache and its readers
    app_cache,   \* the row of cache_key 'referencias_sqlserver': {} or {row}
    candado,     \* readers whose open session holds advisory lock 910001
    tiempo,      \* wall clock, milliseconds
    ticks,       \* clock advances so far
    lecturas,    \* reads started
    \* per reader: one vista_segmentacion request
    rpc, cached, got_lock, cached2, referencias, inicio, despierta, llamo,
    refresco,    \* the api_refresh_cache_referencias request: its position
                 \* and the list it holds
    \* tables of the other bulk loaders, and the loader calls made on them
    inventario_movimientos,  \* set of movement rows (serial id)
    ventas_movimientos,      \* set of sales rows
    indice_unico_mov,        \* whether inventario_movimientos has a unique
                             \* index on (id_version_movimiento, hash_fila)
    llamada,                 \* the last loader call: bookkeeping for claims
    hechos                   \* loader calls that returned: bookkeeping

varsGuardar == << segmentacion, segmentacion_detalle, referencias_vistas,
                  seq_segmentacion, reloj,
                  pc, payload, now, id_version_activa, cands, last_id,
                  desactivadas, id_seg, tx >>

tablasIngesta == << maestra_tiendas_version, maestra_tiendas_filas,
                    maestra_tiendas_actual, inventario_version,
                    inventario_existencias >>

varsIngesta == << maestra_tiendas_filas, maestra_tiendas_actual,
                  seq_maestra_version, inventario_version,
                  inventario_existencias, seq_inventario_version, corridas,
                  jpc, jtipo, jfuente, jver, jtx, jlote, jtotal,
                  antes, solo, repetida, ultimo >>

varsCache == << app_cache, candado, tiempo, ticks, lecturas,
               rpc, cached, got_lock, cached2, referencias, inicio,
               despierta, llamo, refresco >>

varsLote == << inventario_movimientos, ventas_movimientos, indice_unico_mov,
              llamada, hechos >>

vars == << varsGuardar, maestra_tiendas_version, varsIngesta, varsCache,
           varsLote >>

tablas == << segmentacion, segmentacion_detalle, referencias_vistas >>
locales == << payload, now, id_version_activa, cands, last_id, desactivadas,
              id_seg, tx >>

\* ------------------------------------------------------------- helpers
Range(s) == { s[i] : i \in 1..Len(s) }

RECURSIVE SumaSeq(_)
SumaSeq(s) == IF s = << >> THEN 0 ELSE Head(s).cantidad + SumaSeq(Tail(s))

\* str.strip() on the values the model draws: a blank string becomes empty
Strip(s) == IF s = " " THEN "" ELSE s

Max(S) == CHOOSE x \in S : \A y \in S : y <= x

\* ORDER BY fecha_creacion DESC over a set of header rows, as a list of ids
RECURSIVE OrdenDesc(_)
OrdenDesc(S) ==
    IF S = {} THEN << >>
    ELSE LET m == CHOOSE h \in S : \A g \in S : g.fecha_creacion <= h.fecha_creacion
         IN  << m.id_segmentacion >> \o OrdenDesc(S \ {m})

\* --------------------------------------------- guardar_segmentacion: pure part
\* 1) rows kept for the new live assignment: llave, talla present, cantidad > 0
EsFilaActiva_cero(d) ==
    ~ (Strip(d.llave_naval) = "" \/ Strip(d.talla) = "" \/ d.cantidad < 0)

EsFilaActiva(d) ==
    ~ (Strip(d.llave_naval) = "" \/ Strip(d.talla) = "" \/ d.cantidad <= 0)

FilasActivo(detalles) ==
    LET norm(d) == Linea(Strip(d.llave_naval), Strip(d.talla), d.cantidad)
        filt(d) == EsFilaActiva(d)
        RECURSIVE go(_)
        go(s) == IF s = << >> THEN << >>
                 ELSE IF filt(Head(s)) THEN << norm(Head(s)) >> \o go(Tail(s))
                 ELSE go(Tail(s))
    IN  go(detalles)

NewKeys(detalles) ==
    { << r.llave_naval, r.talla >> : r \in Range(FilasActivo(detalles)) }

NuevaActiva(detalles) == NewKeys(detalles) # {}

Resumen(detalles, ndesactivadas) ==
    [ tiendas_con_cantidad |->
          Cardinality({ r.llave_naval : r \in Range(FilasActivo(detalles)) }),
      total_unidades |-> SumaSeq(FilasActivo(detalles)),
      tallas_usadas |-> { r.talla : r \in Range(FilasActivo(detalles)) },
      desactivadas |-> ndesactivadas,
      is_segmented |-> NuevaActiva(detalles) ]

\* ----------------------------------------------------- transaction plumbing
SinEscrituras == [ inactivar |-> {}, cabeceras |-> {}, detalle |-> EmptyBag,
                   vistas |-> {} ]

BaseDatos == [ seg |-> segmentacion, det |-> segmentacion_detalle,
               vis |-> referencias_vistas ]

\* the effect of a transaction's writes on the committed tables
Aplicar_borra(db, w) ==
    [ seg |-> { h \in db.seg : h.id_segmentacion \notin w.inactivar }
              \cup w.cabeceras,
      det |-> db.det (+) w.detalle,
      vis |-> { v \in db.vis :
                  \A n \in w.vistas : n.referencia_sku # v.referencia_sku }
              \cup w.vistas ]

Aplicar(db, w) ==
    [ seg |-> { IF h.id_segmentacion \in w.inactivar
                THEN [h EXCEPT !.estado_segmentacion = "Inactiva"] ELSE h
                : h \in db.seg } \cup w.cabeceras,
      det |-> db.det (+) w.detalle,
      vis |-> { v \in db.vis :
                  \A n \in w.vistas : n.referencia_sku # v.referencia_sku }
              \cup w.vistas ]

\* run_in_transaction, fn ended OK: commit
AlConfirmar(db, w) == Aplicar(db, w)

\* run_in_transaction, fn raised: rollback
AlFallar_commit(db, w) == Aplicar(db, w)
AlFallar(db, w) == db

PonerBase(db) ==
    /\ segmentacion' = db.seg
    /\ segmentacion_detalle' = db.det
    /\ referencias_vistas' = db.vis

EnTx == { "version", "lock", "lockrow", "write", "marker", "commit" }

\* worker v holds the row lock of header h (FOR UPDATE, kept until the
\* transaction ends)
TieneLock_tabla(v, h) ==
    /\ pc[v] \in { "write", "marker", "commit" }
    /\ h # 0

TieneLock(v, h) ==
    /\ pc[v] \in { "write", "marker", "commit" }
    /\ h # 0
    /\ last_id[v] = h

\* worker v has upserted the marker row of ref and not yet committed
TieneMarker(v, ref) ==
    /\ pc[v] = "commit"
    /\ Strip(payload[v].referenciaSku) = ref

\* ------------------------------------------------- ingestion: source data
Jobs == {"j1", "j2"}
Tipos == {"maestra", "inventario"}

FilaM(l, e) == [llave_naval |-> l, estado_linea |-> e]

\* the columns of the source file that the roster tables are built from
ColumnasMaestra == { "llave_naval", "estado_linea" }

\* source files of maestra_tiendas_job: name, the field names of the first
\* line, and the data lines as csv.DictReader yields them (d.txt is empty,
\* e.txt has no LLAVE_NAVAL column)
Archivos ==
    { [nombre |-> "a.txt", cabecera |-> ColumnasMaestra,
       filas |-> << FilaM("K1", "ACTIVA"), FilaM("K2", "activo") >>],
      [nombre |-> "b.txt", cabecera |-> ColumnasMaestra,
       filas |-> << FilaM("", "ACTIVA"), FilaM("K1", "Cerrada") >>],
      [nombre |-> "c.txt", cabecera |-> ColumnasMaestra,
       filas |-> << FilaM("K1", "activo"), FilaM("K1", "Cerrada") >>],
      [nombre |-> "d.txt", cabecera |-> {}, filas |-> << >>],
      [nombre |-> "e.txt", cabecera |-> { "estado_linea" },
       filas |-> << [estado_linea |-> "ACTIVA"] >>] }

FilaI(r, t, d) == [referencia_sku |-> r, talla |-> t, disponible |-> d]

\* what the inventory API answers during one run: one list of items per
\* batch of the reference universe (no batch: the universe is empty)
Datos ==
    { << >>,
      << << FilaI("R1", "m", 4) >> >>,
      << << FilaI("R1", "m", 4) >>, << FilaI("r1", "M", 6) >> >>,
      << << FilaI("R1", "M", 4), FilaI("r1", "m", 6) >> >> }

\* str.lower / str.upper on the strings that occur
Lower(s) ==
    CASE s = "ACTIVA" -> "activa"
      [] s = "Cerrada" -> "cerrada"
      [] OTHER -> s

Upper(s) ==
    CASE s = "m" -> "M"
      [] s = "r1" -> "R1"
      [] OTHER -> s

\* sha256_file: equal exactly for equal file contents
sha256_file(f) == << f.cabecera, f.filas >>

\* build_hash_fila: md5 of the upper-cased key fields
build_hash_fila(row) == << Upper(row.referencia_sku), Upper(row.talla) >>

\* mapear_datos_api followed by row["hash_fila"] = build_hash_fila(row)
mapear_datos_api(it) ==
    LET row == [referencia_sku |-> it.referencia_sku,
                talla |-> Upper(it.talla),
                disponible |-> it.disponible]
    IN [referencia_sku |-> row.referencia_sku, talla |-> row.talla,
        disponible |-> row.disponible, hash_fila |-> build_hash_fila(row)]

\* load_staging: r.get(column) for every data line; a column the file
\* does not have is stored as NULL, which COALESCE(.., '') reads as ''
load_staging(f) ==
    [i \in 1..Len(f.filas) |->
        LET r == f.filas[i]
            get(c) == IF c \in DOMAIN r THEN r[c] ELSE ""
        IN FilaM(get("llave_naval"), get("estado_linea"))]

\* insert_filas: staging rows with a llave_naval, estado_linea normalised
EstadoLinea(e) ==
    IF Lower(e) \in {"activa", "activo"} THEN "Activo" ELSE "Inactivo"

insert_filas(id, filas) ==
    { [id_version |-> id, orden |-> i,
       llave_naval |-> filas[i].llave_naval,
       estado_linea |-> EstadoLinea(filas[i].estado_linea)] :
      i \in { n \in 1..Len(filas) : filas[n].llave_naval # "" } }

\* upsert_actual: the rows INSERT ... SELECT proposes for the projection
FilasActual(filas, id) ==
    { [llave_naval |-> f.llave_naval, estado_linea |-> f.estado_linea,
       id_version_ultima |-> f.id_version] :
      f \in { x \in filas : x.id_version = id } }

\* ON CONFLICT DO UPDATE refuses a statement that proposes the same
\* llave_naval twice
ConflictoDoble(propuestas) ==
    \E a, b \in propuestas : a # b /\ a.llave_naval = b.llave_naval

\* a projection rebuilt from the incoming version alone
Upsert_reemplaza(actual, propuestas) == propuestas

Upsert(actual, propuestas) ==
    { a \in actual : \A p \in propuestas : p.llave_naval # a.llave_naval }
        \cup propuestas

VersionM(id, f, estado) ==
    [id_version |-> id, nombre_archivo |-> f.nombre,
     hash_archivo |-> sha256_file(f), filas_total |-> Len(f.filas),
     estado_version |-> estado]

ActivasM(versiones) == { v \in versiones : v.estado_version = "Activa" }
ActivasI(versiones) == { v \in versiones : v.estado_version = "Activa" }

\* writes of an open maestra_tiendas_job transaction
SinEscriturasM ==
    [versiones |-> {}, filas |-> {}, actual |-> {}, inactivar |-> {},
     activar |-> {}]

ArchivoInicial == CHOOSE f \in Archivos : f.nombre = "a.txt"

\* the roster before any run, and after a.txt was loaded as version 1
MaestraVacia ==
    /\ maestra_tiendas_version = {}
    /\ maestra_tiendas_filas = {}
    /\ maestra_tiendas_actual = {}
    /\ seq_maestra_version = 0
    /\ ultimo = [t \in Tipos |-> {}]

MaestraCargada ==
    /\ maestra_tiendas_version = { VersionM(1, ArchivoInicial, "Activa") }
    /\ maestra_tiendas_filas = insert_filas(1, load_staging(ArchivoInicial))
    /\ maestra_tiendas_actual =
           FilasActual(insert_filas(1, load_staging(ArchivoInicial)), 1)
    /\ seq_maestra_version = 1
    /\ ultimo = [t \in Tipos |-> IF t = "maestra" THEN {ArchivoInicial} ELSE {}]

InitJobs ==
    /\ inventario_version = {}
    /\ inventario_existencias = {}
    /\ seq_inventario_version = 0
    /\ corridas = 0
    /\ jpc = [j \in Jobs |-> "idle"]
    /\ jtipo = [j \in Jobs |-> "maestra"]
    /\ jfuente = [j \in Jobs |-> << >>]
    /\ jver = [j \in Jobs |-> 0]
    /\ jtx = [j \in Jobs |-> SinEscriturasM]
    /\ jlote = [j \in Jobs |-> 0]
    /\ jtotal = [j \in Jobs |-> 0]
    /\ antes = [j \in Jobs |-> << >>]
    /\ solo = [j \in Jobs |-> TRUE]
    /\ repetida = [j \in Jobs |-> FALSE]

\* ---------------------------------------------------- reference cache
Readers == {"r1", "r2"}

CACHE_TTL_SECONDS == 120
max_wait_seconds == 8
\* time.sleep(0.25) between two polls, in milliseconds
PollMs == 250
Ms(segundos) == segundos * 1000

\* amounts by which the clock is seen to advance
Saltos == { PollMs, Ms(max_wait_seconds), Ms(CACHE_TTL_SECONDS) }

\* lists obtener_referencias may return
Respuestas == { << "REF1" >>, << >> }

FilaCache(p, t) == [payload |-> p, updated_at |-> t]

\* (cached or {}).get("payload") or []
PayloadO(c) == IF c = {} THEN << >> ELSE (CHOOSE x \in c : TRUE).payload

\* AppCacheService.is_fresh at clock value t
is_fresh_inclusivo(c, ttl_seconds, t) ==
    /\ c # {}
    /\ \A x \in c : t - x.updated_at <= Ms(ttl_seconds)

is_fresh(c, ttl_seconds, t) ==
    /\ c # {}
    /\ \A x \in c : t - x.updated_at < Ms(ttl_seconds)

InitLectores ==
    /\ candado = {}
    /\ tiempo = 0
    /\ ticks = 0
    /\ lecturas = 0
    /\ rpc = [r \in Readers |-> "idle"]
    /\ cached = [r \in Readers |-> {}]
    /\ got_lock = [r \in Readers |-> FALSE]
    /\ cached2 = [r \in Readers |-> {}]
    /\ referencias = [r \in Readers |-> << >>]
    /\ inicio = [r \in Readers |-> 0]
    /\ despierta = [r \in Readers |-> 0]
    /\ llamo = [r \in Readers |-> FALSE]
    /\ refresco = [pc |-> "idle", referencias |-> << >>]

\* ------------------------------------------------- bulk loaders: data
Cargadores == {"inventario", "movimiento", "ventas"}
Versiones == {1, 2}

\* items of one API answer of inventario_job
LotesI ==
    { << FilaI("R1", "m", 4) >>,
      << FilaI("r1", "M", 6) >>,
      << FilaI("R1", "m", 4), FilaI("R2", "m", 1) >> }

FilaMov(r, t, n) == [referencia_sku |-> r, talla |-> t, cantidad_neta |-> n]

\* items of one API answer of inventario_movimiento_job
LotesMov ==
    { << FilaMov("R1", "M", 2) >>,
      << FilaMov("r1", "m", 3) >>,
      << FilaMov("R1", "M", 2), FilaMov("R2", "M", 1) >> }

VentaRaw(r, t, p) == [referencia |-> r, talla |-> t, pvp |-> p]

\* rows of ventas_staging_raw under one version
LotesVentas ==
    { << VentaRaw("R1", "M", 10) >>,
      << VentaRaw("R1", "M", 12) >>,
      << VentaRaw("R1", "M", 10), VentaRaw("", "M", 5) >> }

\* inventario_movimiento_job.build_hash_fila: md5 of the upper-cased key
\* fields; cantidad_neta is not among them
build_hash_fila_mov(row) == << Upper(row.referencia_sku), Upper(row.talla) >>

\* the row dict main builds from an API item, with its hash_fila
FilaMovimiento(it) ==
    [referencia_sku |-> it.referencia_sku, talla |-> it.talla,
     cantidad_neta |-> it.cantidad_neta,
     hash_fila |-> build_hash_fila_mov(it)]

\* INSERT INTO inventario_movimientos ... VALUES: no ON CONFLICT clause; the
\* rows take the next serial ids
InsertMovimientos(tabla, id, filas) ==
    tabla \cup
    { [id_movimiento |-> Cardinality(tabla) + i, id_version_movimiento |-> id,
       referencia_sku |-> filas[i].referencia_sku, talla |-> filas[i].talla,
       cantidad_neta |-> filas[i].cantidad_neta,
       hash_fila |-> filas[i].hash_fila] : i \in 1..Len(filas) }

\* NULLIF(trim(x), ''): {} stands for NULL
NullIf(x) == IF Strip(x) = "" THEN {} ELSE { Strip(x) }

\* stage_to_final: md5 over the trimmed key columns; pvp is not among them
HashVenta(sr) == << Strip(sr.referencia), Strip(sr.talla) >>

FilaVenta(id, sr) ==
    [id_version_ventas |-> id, referencia |-> NullIf(sr.referencia),
     talla |-> NullIf(sr.talla), pvp |-> sr.pvp, hash_fila |-> HashVenta(sr)]

\* stage_to_final: INSERT ... SELECT ... ON CONFLICT (hash_fila) DO NOTHING.
\* A hash_fila the table holds is skipped; of the staging rows that share a
\* new hash_fila one is inserted, whichever the scan meets first.
stage_to_final(tabla, id, staging) ==
    LET nuevos == { HashVenta(staging[i]) : i \in 1..Len(staging) }
                      \ { e.hash_fila : e \in tabla }
        elecciones == { f \in [nuevos -> 1..Len(staging)] :
                          \A h \in nuevos : HashVenta(staging[f[h]]) = h }
    IN { tabla \cup { FilaVenta(id, staging[f[h]]) : h \in nuevos } :
         f \in elecciones }

InitLote ==
    /\ inventario_movimientos = {}
    /\ ventas_movimientos = {}
    /\ llamada = [n |-> 0, cargador |-> "inventario", version |-> 1,
                  lote |-> << >>, repetido |-> FALSE, ok |-> TRUE]
    /\ hechos = {}

\* --------------------------------------------------------------- Init
InitGuardar ==
    /\ segmentacion = {}
    /\ segmentacion_detalle = EmptyBag
    /\ referencias_vistas = {}
    /\ seq_segmentacion = 0
    /\ reloj = 0
    /\ pc = [w \in Workers |-> "idle"]
    /\ payload = [w \in Workers |-> [referenciaSku |-> " ", detalle |-> << >>]]
    /\ now = [w \in Workers |-> 0]
    /\ id_version_activa = [w \in Workers |-> 0]
    /\ cands = [w \in Workers |-> << >>]
    /\ last_id = [w \in Workers |-> 0]
    /\ desactivadas = [w \in Workers |-> {}]
    /\ id_seg = [w \in Workers |-> 0]
    /\ tx = [w \in Workers |-> SinEscrituras]

Init ==
    /\ InitGuardar
    /\ MaestraVacia \/ MaestraCargada
    /\ InitJobs
    /\ InitLectores
    /\ app_cache = {}
    /\ InitLote
    /\ indice_unico_mov = FALSE

\* the cache before its first write, or holding an entry written at time 0
InitCache ==
    /\ InitGuardar
    /\ MaestraVacia
    /\ InitJobs
    /\ InitLectores
    /\ app_cache \in { {}, { FilaCache(<< "REF0" >>, 0) } }
    /\ InitLote
    /\ indice_unico_mov = FALSE

\* --------------------------------------------------- guardar_segmentacion
\* A worker is free before its first call and after a call has returned.
Libre(w) == pc[w] \in { "idle", "ok", "error" }

\* The call starts: now is taken, the kept set is built from the payload.
Guardar(w, ref, det) ==
    /\ Libre(w)
    /\ reloj < MaxSaves
    /\ reloj' = reloj + 1
    /\ now' = [now EXCEPT ![w] = reloj + 1]
    /\ payload' = [payload EXCEPT ![w] = [referenciaSku |-> ref, detalle |-> det]]
    /\ pc' = [pc EXCEPT ![w] = "version"]
    /\ id_version_activa' = [id_version_activa EXCEPT ![w] = 0]
    /\ cands' = [cands EXCEPT ![w] = << >>]
    /\ last_id' = [last_id EXCEPT ![w] = 0]
    /\ desactivadas' = [desactivadas EXCEPT ![w] = {}]
    /\ id_seg' = [id_seg EXCEPT ![w] = 0]
    /\ tx' = [tx EXCEPT ![w] = SinEscrituras]
    /\ UNCHANGED << tablas, maestra_tiendas_version, seq_segmentacion >>
    /\ UNCHANGED << varsIngesta, varsCache, varsLote >>

\* The call raises "Falta referenciaSku" before detalle is read and before
\* any transaction begins.
GuardarSinReferencia(w, ref) ==
    /\ Libre(w)
    /\ reloj < MaxSaves
    /\ Strip(ref) = ""
    /\ reloj' = reloj + 1
    /\ now' = [now EXCEPT ![w] = reloj + 1]
    /\ payload' = [payload EXCEPT ![w] = [referenciaSku |-> ref, detalle |-> << >>]]
    /\ pc' = [pc EXCEPT ![w] = "error"]
    /\ id_version_activa' = [id_version_activa EXCEPT ![w] = 0]
    /\ cands' = [cands EXCEPT ![w] = << >>]
    /\ last_id' = [last_id EXCEPT ![w] = 0]
    /\ desactivadas' = [desactivadas EXCEPT ![w] = {}]
    /\ id_seg' = [id_seg EXCEPT ![w] = 0]
    /\ tx' = [tx EXCEPT ![w] = SinEscrituras]
    /\ UNCHANGED << tablas, maestra_tiendas_version, seq_segmentacion >>
    /\ UNCHANGED << varsIngesta, varsCache, varsLote >>

\* _tx 1) and 2): the Active roster version, then the projection refresh
TxVersion_sin_raise(w) ==
    /\ pc[w] = "version"
    /\ LET activas == { v \in maestra_tiendas_version : v.estado_version = "Activa" }
       IN  id_version_activa' = [id_version_activa EXCEPT ![w] =
               IF activas = {} THEN 0 ELSE Max({ v.id_version : v \in activas })]
    /\ pc' = [pc EXCEPT ![w] = "lock"]
    /\ UNCHANGED tablas
    /\ UNCHANGED << maestra_tiendas_version, seq_segmentacion, reloj,
                    payload, now, cands, last_id, desactivadas, id_seg, tx >>
    /\ UNCHANGED << varsIngesta, varsCache, varsLote >>

\* SELECT * FROM public.refresh_maestra_tiendas_actual(): the function is
\* defined in the database, not in the sources; saves are independent of
\* each other except for the per-reference row lock, so the call waits for
\* no other save
refresh_maestra_tiendas_actual(w) == \A v \in Workers \ {w} : TRUE

TxVersion(w) ==
    /\ pc[w] = "version"
    /\ LET activas == { v \in maestra_tiendas_version : v.estado_version = "Activa" }
       IN  IF activas = {}
           THEN /\ pc' = [pc EXCEPT ![w] = "error"]
                /\ PonerBase(AlFallar(BaseDatos, tx[w]))
                /\ UNCHANGED id_version_activa
           ELSE /\ refresh_maestra_tiendas_actual(w)
                /\ id_version_activa' = [id_version_activa EXCEPT ![w] =
                        Max({ v.id_version : v \in activas })]
                /\ pc' = [pc EXCEPT ![w] = "lock"]
                /\ UNCHANGED tablas
    /\ UNCHANGED << maestra_tiendas_version, seq_segmentacion, reloj,
                    payload, now, cands, last_id, desactivadas, id_seg, tx >>
    /\ UNCHANGED << varsIngesta, varsCache, varsLote >>

\* _tx 3), statement start: the rows of the statement's snapshot that match
\* referencia = ref AND estado = 'Activa', newest first
CabecerasActivas(seg, ref) ==
    { h \in seg : h.referencia = ref /\ h.estado_segmentacion = "Activa" }

TxSelectForUpdate(w) ==
    /\ pc[w] = "lock"
    /\ cands' = [cands EXCEPT ![w] =
                   OrdenDesc(CabecerasActivas(segmentacion,
                                              Strip(payload[w].referenciaSku)))]
    /\ pc' = [pc EXCEPT ![w] = "lockrow"]
    /\ UNCHANGED << tablas, maestra_tiendas_version, seq_segmentacion, reloj,
                    payload, now, id_version_activa, last_id, desactivadas,
                    id_seg, tx >>
    /\ UNCHANGED << varsIngesta, varsCache, varsLote >>

\* the row FOR UPDATE LIMIT 1 returns once the lock on candidate h is granted:
\* the latest committed version of h is checked against the WHERE clause again
SigueActiva(seg, h) ==
    \E r \in seg : r.id_segmentacion = h /\ r.estado_segmentacion = "Activa"

\* _tx 3), row locking: waits while another transaction holds the row; a row
\* that no longer matches is skipped; LIMIT 1 stops at the first locked row
TxLockRow(w) ==
    /\ pc[w] = "lockrow"
    /\ IF cands[w] = << >>
       THEN /\ last_id' = [last_id EXCEPT ![w] = 0]
            /\ pc' = [pc EXCEPT ![w] = "write"]
            /\ UNCHANGED cands
       ELSE /\ \A v \in Workers \ {w} : ~ TieneLock(v, Head(cands[w]))
            /\ IF SigueActiva(segmentacion, Head(cands[w]))
               THEN /\ last_id' = [last_id EXCEPT ![w] = Head(cands[w])]
                    /\ cands' = [cands EXCEPT ![w] = << >>]
                    /\ pc' = [pc EXCEPT ![w] = "write"]
               ELSE /\ cands' = [cands EXCEPT ![w] = Tail(cands[w])]
                    /\ UNCHANGED << last_id, pc >>
    /\ UNCHANGED << tablas, maestra_tiendas_version, seq_segmentacion, reloj,
                    payload, now, id_version_activa, desactivadas, id_seg, tx >>
    /\ UNCHANGED << varsIngesta, varsCache, varsLote >>

\* _tx 4): keys of the locked header's Active lines with cantidad > 0
PrevKeys(det, id) ==
    IF id = 0 THEN {}
    ELSE { << d.llave_naval, d.talla >> :
             d \in { x \in BagToSet(det) :
                       /\ x.id_segmentacion = id
                       /\ x.estado_detalle = "Activo"
                       /\ x.cantidad > 0 } }

Desactivadas(prev_keys, new_keys) == prev_keys \ new_keys

\* _tx 5): the previous header, if any, is set to Inactiva
Inactivar(id) == IF id # 0 THEN {id} ELSE {}

\* _tx 6): the new header row
EstadoNueva_siempre(detalles) == "Activa"

EstadoNueva(detalles) == IF NuevaActiva(detalles) THEN "Activa" ELSE "Inactiva"

NuevaCabecera(id, ref, detalles, fecha, version) ==
    [ id_segmentacion |-> id,
      referencia |-> ref,
      estado_segmentacion |-> EstadoNueva(detalles),
      fecha_creacion |-> fecha,
      id_version_tiendas |-> version ]

\* _tx 7): filas_insert, one Activo row per kept line, one Inactivo row with
\* cantidad 0 per removed key
RECURSIVE BolsaDe(_)
BolsaDe(s) == IF s = << >> THEN EmptyBag
              ELSE SetToBag({Head(s)}) (+) BolsaDe(Tail(s))

FilasInsert(id, detalles, desact) ==
    LET activos == [ i \in 1..Len(FilasActivo(detalles)) |->
                       [ id_segmentacion |-> id,
                         llave_naval |-> FilasActivo(detalles)[i].llave_naval,
                         talla |-> FilasActivo(detalles)[i].talla,
                         cantidad |-> FilasActivo(detalles)[i].cantidad,
                         estado_detalle |-> "Activo" ] ]
        inactivos == { [ id_segmentacion |-> id,
                         llave_naval |-> k[1],
                         talla |-> k[2],
                         cantidad |-> 0,
                         estado_detalle |-> "Inactivo" ] : k \in desact }
    IN  BolsaDe(activos) (+) SetToBag(inactivos)

\* _tx 4) to 7): statements that read rows only this transaction can change
\* and write rows no other transaction sees before the commit
TxEscribir(w) ==
    /\ pc[w] = "write"
    /\ desactivadas' = [desactivadas EXCEPT ![w] =
           Desactivadas(PrevKeys(segmentacion_detalle, last_id[w]),
                        NewKeys(payload[w].detalle))]
    /\ seq_segmentacion' = seq_segmentacion + 1
    /\ id_seg' = [id_seg EXCEPT ![w] = seq_segmentacion + 1]
    /\ tx' = [tx EXCEPT ![w] =
                [ @ EXCEPT
                  !.inactivar = Inactivar(last_id[w]),
                  !.cabeceras = { NuevaCabecera(seq_segmentacion + 1,
                                                Strip(payload[w].referenciaSku),
                                                payload[w].detalle, now[w],
                                                id_version_activa[w]) },
                  !.detalle = FilasInsert(seq_segmentacion + 1,
                                          payload[w].detalle, desactivadas'[w]) ]]
    /\ pc' = [pc EXCEPT ![w] = "marker"]
    /\ UNCHANGED << tablas, maestra_tiendas_version, reloj,
                    payload, now, id_version_activa, cands, last_id >>
    /\ UNCHANGED << varsIngesta, varsCache, varsLote >>

\* _tx 8): referencias_vistas upsert; segmented_at is {} for NULL
SegmentedAt(detalles, t) == IF NuevaActiva(detalles) THEN {t} ELSE {}

TxMarker(w) ==
    /\ pc[w] = "marker"
    /\ \A v \in Workers \ {w} : ~ TieneMarker(v, Strip(payload[w].referenciaSku))
    /\ tx' = [tx EXCEPT ![w].vistas =
                { [ referencia_sku |-> Strip(payload[w].referenciaSku),
                    segmented_at |-> SegmentedAt(payload[w].detalle, now[w]) ] }]
    /\ pc' = [pc EXCEPT ![w] = "commit"]
    /\ UNCHANGED << tablas, maestra_tiendas_version, seq_segmentacion, reloj,
                    payload, now, id_version_activa, cands, last_id,
                    desactivadas, id_seg >>
    /\ UNCHANGED << varsIngesta, varsCache, varsLote >>

\* run_in_transaction: fn returned, conn.commit()
TxCommit(w) ==
    /\ pc[w] = "commit"
    /\ PonerBase(AlConfirmar(BaseDatos, tx[w]))
    /\ pc' = [pc EXCEPT ![w] = "ok"]
    /\ UNCHANGED << maestra_tiendas_version, seq_segmentacion, reloj, locales >>
    /\ UNCHANGED << varsIngesta, varsCache, varsLote >>

\* run_in_transaction: a statement of fn raised, conn.rollback(); the
\* exception leaves guardar_segmentacion and its locals are gone
TxFalla(w) ==
    /\ pc[w] \in EnTx \ {"version"}
    /\ PonerBase(AlFallar(BaseDatos, tx[w]))
    /\ pc' = [pc EXCEPT ![w] = "error"]
    /\ tx' = [tx EXCEPT ![w] = SinEscrituras]
    /\ cands' = [cands EXCEPT ![w] = << >>]
    /\ desactivadas' = [desactivadas EXCEPT ![w] = {}]
    /\ id_version_activa' = [id_version_activa EXCEPT ![w] = 0]
    /\ UNCHANGED << maestra_tiendas_version, seq_segmentacion, reloj,
                    payload, now, last_id, id_seg >>
    /\ UNCHANGED << varsIngesta, varsCache, varsLote >>

Next ==
    \E w \in Workers :
        \/ \E ref \in Refs, det \in Detalles : Guardar(w, ref, det)
        \/ \E ref \in RefsRaw : GuardarSinReferencia(w, ref)
        \/ TxVersion(w)
        \/ TxSelectForUpdate(w)
        \/ TxLockRow(w)
        \/ TxEscribir(w)
        \/ TxMarker(w)
        \/ TxCommit(w)
        \/ TxFalla(w)

Spec == Init /\ [][Next]_vars

\* api_segmentar_referencia, marcar_como_segmentada: one upsert, committed
\* by repo.execute, that sets segmented_at = now for the reference
marcar_como_segmentada(ref) ==
    /\ reloj < MaxSaves
    /\ reloj' = reloj + 1
    /\ \A v \in Workers : ~ TieneMarker(v, ref)
    /\ referencias_vistas' =
           { v \in referencias_vistas : v.referencia_sku # ref }
              \cup { [ referencia_sku |-> ref, segmented_at |-> { reloj + 1 } ] }
    /\ UNCHANGED << segmentacion, segmentacion_detalle, maestra_tiendas_version,
                    seq_segmentacion, pc, locales >>
    /\ UNCHANGED << varsIngesta, varsCache, varsLote >>

\* reset_segmentaciones: TRUNCATE segmentacion_detalle, segmentacion RESTART
\* IDENTITY in a transaction of its own; it waits for the transactions
\* that have read or written the two tables
reset_segmentaciones ==
    /\ reloj < MaxSaves
    /\ reloj' = reloj + 1
    /\ \A w \in Workers : pc[w] \notin { "lockrow", "write", "marker", "commit" }
    /\ segmentacion' = {}
    /\ segmentacion_detalle' = EmptyBag
    /\ seq_segmentacion' = 0
    /\ UNCHANGED << referencias_vistas, maestra_tiendas_version, pc, locales >>
    /\ UNCHANGED << varsIngesta, varsCache, varsLote >>

NextMarcas ==
    \/ Next
    \/ \E ref \in Refs : marcar_como_segmentada(ref)
    \/ reset_segmentaciones

SpecMarcas == Init /\ [][NextMarcas]_vars

\* the saves of two workers that never save the same reference: w1 saves
\* R1 and w2 saves R2
NextRefs ==
    \E w \in Workers :
        \/ \E det \in Detalles :
              Guardar(w, IF w = "w1" THEN "R1" ELSE "R2", det)
        \/ TxVersion(w)
        \/ TxSelectForUpdate(w)
        \/ TxLockRow(w)
        \/ TxEscribir(w)
        \/ TxMarker(w)
        \/ TxCommit(w)

\* both references already have an Activa header, saved at time 0 under
\* roster version 1 with the lines (S1, M, 5) and (S2, L, 3)
InitRefs ==
    /\ LET det == << Linea("S1", "M", 5), Linea("S2", "L", 3) >>
       IN /\ segmentacion = { NuevaCabecera(1, "R1", det, 0, 1),
                               NuevaCabecera(2, "R2", det, 0, 1) }
          /\ segmentacion_detalle =
                 FilasInsert(1, det, {}) (+) FilasInsert(2, det, {})
          /\ referencias_vistas =
                 { [ referencia_sku |-> r, segmented_at |-> SegmentedAt(det, 0) ] :
                   r \in { "R1", "R2" } }
    /\ seq_segmentacion = 2
    /\ reloj = 0
    /\ pc = [w \in Workers |-> "idle"]
    /\ payload = [w \in Workers |-> [referenciaSku |-> " ", detalle |-> << >>]]
    /\ now = [w \in Workers |-> 0]
    /\ id_version_activa = [w \in Workers |-> 0]
    /\ cands = [w \in Workers |-> << >>]
    /\ last_id = [w \in Workers |-> 0]
    /\ desactivadas = [w \in Workers |-> {}]
    /\ id_seg = [w \in Workers |-> 0]
    /\ tx = [w \in Workers |-> SinEscrituras]
    /\ MaestraCargada
    /\ InitJobs
    /\ InitLectores
    /\ app_cache = {}
    /\ InitLote
    /\ indice_unico_mov = FALSE

SpecRefs == InitRefs /\ [][NextRefs]_vars

\* ------------------------------------------------------ claims on the save
Confirma(w) == pc[w] = "commit" /\ pc'[w] = "ok"
Falla(w) == pc[w] \in EnTx /\ pc'[w] = "error"
RefDe(w) == Strip(payload[w].referenciaSku)
FilasDe(det, id) == { d \in BagToSet(det) : d.id_segmentacion = id }
ClaveDe(d) == << d.llave_naval, d.talla >>

\* C1: for every reference, in every committed state, at most one header of
\* the reference has estado_segmentacion = 'Activa'.
C1_UnaCabeceraActiva ==
    \A r \in Refs : Cardinality(CabecerasActivas(segmentacion, r)) <= 1

\* C4: a save that commits for a reference whose current Active header has
\* the Active keys P, with kept set K, leaves a new header whose Activo lines
\* are the kept lines with their submitted quantities and whose Inactivo
\* lines are one line with cantidad 0 per key of P \ K; the returned
\* desactivadas count is |P \ K|.
ClavesVigentes(seg, det, ref) ==
    IF CabecerasActivas(seg, ref) = {} THEN {}
    ELSE PrevKeys(det, Head(OrdenDesc(CabecerasActivas(seg, ref))))

C4_DiffCorrecto ==
    [][ \A w \in Workers : Confirma(w) =>
          LET P == ClavesVigentes(segmentacion, segmentacion_detalle, RefDe(w))
              K == NewKeys(payload[w].detalle)
              filas == FilasDe(segmentacion_detalle', id_seg[w])
          IN  /\ { Linea(d.llave_naval, d.talla, d.cantidad) :
                     d \in { x \in filas : x.estado_detalle = "Activo" } }
                   = Range(FilasActivo(payload[w].detalle))
              /\ { x \in filas : x.estado_detalle = "Inactivo" }
                   = { [ id_segmentacion |-> id_seg[w], llave_naval |-> k[1],
                         talla |-> k[2], cantidad |-> 0,
                         estado_detalle |-> "Inactivo" ] : k \in P \ K }
              /\ Resumen(payload[w].detalle, Cardinality(desactivadas[w])).desactivadas
                   = Cardinality(P \ K)
      ]_vars

\* C7: a save that fails after its transaction began leaves the committed
\* tables as they were: the failing step changes no table, the header it had
\* locked is still Activa, its new header is not visible, and no step of a
\* save other than its commit changes a committed table.
C7_FallaSinEfecto ==
    [][ /\ \A w \in Workers : Falla(w) =>
              /\ tablas' = tablas
              /\ last_id[w] # 0 => SigueActiva(segmentacion', last_id[w])
              /\ \A h \in segmentacion' : h.id_segmentacion # id_seg[w]
              /\ FilasDe(segmentacion_detalle', id_seg[w]) = {}
        /\ tablas' # tablas => \E w \in Workers : Confirma(w)
      ]_vars

\* C7 witness: a save failed after it had locked the Active header, flipped
\* it and inserted its new header; the old header is still Activa.
C7_Testigo ==
    \E w \in Workers :
        /\ pc[w] = "error"
        /\ id_seg[w] # 0
        /\ last_id[w] # 0
        /\ SigueActiva(segmentacion, last_id[w])
        /\ \A h \in segmentacion : h.id_segmentacion # id_seg[w]

\* C9: a save that commits with an empty kept set inserts a header with
\* estado Inactiva, leaves the reference without an Activa header and leaves
\* the reference's segmented_at NULL.
C9_GuardadoVacio ==
    [][ \A w \in Workers :
          (Confirma(w) /\ ~ NuevaActiva(payload[w].detalle)) =>
              /\ \E h \in segmentacion' :
                    /\ h.id_segmentacion = id_seg[w]
                    /\ h.estado_segmentacion = "Inactiva"
              /\ CabecerasActivas(segmentacion', RefDe(w)) = {}
              /\ \E v \in referencias_vistas' :
                    v.referencia_sku = RefDe(w) /\ v.segmented_at = {}
      ]_vars

\* C10: saves of one reference are serialized: a save that commits flips
\* every header of the reference that was Activa in the committed state to
\* Inactiva, and its removed set is those headers' Active keys minus its own
\* kept set.
C10_Serializadas ==
    [][ \A w \in Workers : Confirma(w) =>
          LET previas == CabecerasActivas(segmentacion, RefDe(w))
          IN  /\ \A h \in previas : ~ SigueActiva(segmentacion', h.id_segmentacion)
              /\ desactivadas[w]
                   = UNION { PrevKeys(segmentacion_detalle, h.id_segmentacion) :
                               h \in previas }
                     \ NewKeys(payload[w].detalle)
      ]_vars

\* ------------------------------------------------------- ingestion jobs
JLibre(j) == jpc[j] \in { "idle", "done", "skipped", "failed" }
EnCurso(k, tipo) == ~JLibre(k) /\ jtipo[k] = tipo

\* committed tables of one dataset
Tablas(tipo) ==
    IF tipo = "maestra"
    THEN << maestra_tiendas_version, maestra_tiendas_filas,
            maestra_tiendas_actual >>
    ELSE << inventario_version, inventario_existencias >>

\* A job process starts on a source.  antes, solo and repetida record, for
\* the run, the dataset's committed tables at its start, whether no other
\* run of the dataset overlaps it, and whether it directly follows a
\* successful run on the same source.
Arrancar(j, tipo, fuente) ==
    /\ JLibre(j)
    /\ corridas < MaxCorridas
    /\ corridas' = corridas + 1
    /\ jtipo' = [jtipo EXCEPT ![j] = tipo]
    /\ jfuente' = [jfuente EXCEPT ![j] = fuente]
    /\ jver' = [jver EXCEPT ![j] = 0]
    /\ jtx' = [jtx EXCEPT ![j] = SinEscriturasM]
    /\ jlote' = [jlote EXCEPT ![j] = 0]
    /\ jtotal' = [jtotal EXCEPT ![j] = 0]
    /\ antes' = [antes EXCEPT ![j] = Tablas(tipo)]
    /\ LET otros == { k \in Jobs \ {j} : EnCurso(k, tipo) }
       IN /\ solo' = [k \in Jobs |->
                         IF k = j THEN otros = {}
                         ELSE IF k \in otros THEN FALSE ELSE solo[k]]
          /\ repetida' = [k \in Jobs |->
                         IF k = j THEN otros = {} /\ ultimo[tipo] = {fuente}
                         ELSE IF k \in otros THEN FALSE ELSE repetida[k]]
    /\ UNCHANGED << varsLote, varsCache, varsGuardar, tablasIngesta, seq_maestra_version,
                    seq_inventario_version, ultimo >>

\* a run ends: ultimo keeps its source if it succeeded
Termina(j, exito) ==
    ultimo' = [ultimo EXCEPT ![jtipo[j]] = IF exito THEN {jfuente[j]} ELSE {}]

\* ----- maestra_tiendas_job.main: one transaction, autocommit off
MIniciar(j, f) ==
    /\ Arrancar(j, "maestra", f)
    /\ jpc' = [jpc EXCEPT ![j] = "leer"]

\* read_tsv: a file without field names raises before the connection opens
read_tsv(j) ==
    /\ jpc[j] = "leer" /\ jtipo[j] = "maestra"
    /\ IF jfuente[j].cabecera # {}
         THEN /\ jpc' = [jpc EXCEPT ![j] = "hash"]
              /\ UNCHANGED ultimo
         ELSE /\ jpc' = [jpc EXCEPT ![j] = "failed"]
              /\ Termina(j, FALSE)
    /\ UNCHANGED << varsLote, varsCache, varsGuardar, tablasIngesta, seq_maestra_version,
                    seq_inventario_version, corridas, jtipo, jfuente, jver,
                    jtx, jlote, jtotal, antes, solo, repetida >>

\* get_active_version_hash: LIMIT 1 without ORDER BY returns any Active row;
\* an equal hash ends the run with "NO CHANGES"
get_active_version_hash(j) ==
    /\ jpc[j] = "hash"
    /\ LET activas == ActivasM(maestra_tiendas_version)
       IN \E active_hash \in (IF activas = {} THEN { {} }
                              ELSE { {v.hash_archivo} : v \in activas }) :
            IF active_hash = { sha256_file(jfuente[j]) }
              THEN /\ jpc' = [jpc EXCEPT ![j] = "skipped"]
                   /\ Termina(j, TRUE)
              ELSE /\ jpc' = [jpc EXCEPT ![j] = "crear"]
                   /\ UNCHANGED ultimo
    /\ UNCHANGED << varsLote, varsCache, varsGuardar, tablasIngesta, seq_maestra_version,
                    seq_inventario_version, corridas, jtipo, jfuente, jver,
                    jtx, jlote, jtotal, antes, solo, repetida >>

\* create_new_version: the sequence advances at once, the row is pending
create_new_version(j) ==
    /\ jpc[j] = "crear" /\ jtipo[j] = "maestra"
    /\ seq_maestra_version' = seq_maestra_version + 1
    /\ jver' = [jver EXCEPT ![j] = seq_maestra_version + 1]
    /\ jtx' = [jtx EXCEPT ![j].versiones =
                  { VersionM(seq_maestra_version + 1, jfuente[j], "Inactiva") }]
    /\ jpc' = [jpc EXCEPT ![j] = "staging"]
    /\ UNCHANGED << varsLote, varsCache, varsGuardar, tablasIngesta, seq_inventario_version,
                    corridas, jtipo, jfuente, jlote, jtotal, antes, solo,
                    repetida, ultimo >>

\* a run that has truncated the staging table holds its ACCESS EXCLUSIVE
\* lock until its transaction ends
TieneStaging(k) ==
    /\ jtipo[k] = "maestra"
    /\ jpc[k] \in { "filas", "actual", "activar", "commit" }

\* truncate_staging: waits for the table lock; load_staging then fills the
\* staging table from the file's lines
truncate_staging(j) ==
    /\ jpc[j] = "staging"
    /\ \A k \in Jobs \ {j} : ~TieneStaging(k)
    /\ jpc' = [jpc EXCEPT ![j] = "filas"]
    /\ UNCHANGED << varsLote, varsCache, varsGuardar, tablasIngesta, seq_maestra_version,
                    seq_inventario_version, corridas, jtipo, jfuente, jver,
                    jtx, jlote, jtotal, antes, solo, repetida, ultimo >>

MInsertFilas(j) ==
    /\ jpc[j] = "filas"
    /\ jtx' = [jtx EXCEPT ![j].filas = insert_filas(jver[j], load_staging(jfuente[j]))]
    /\ jpc' = [jpc EXCEPT ![j] = "actual"]
    /\ UNCHANGED << varsLote, varsCache, varsGuardar, tablasIngesta, seq_maestra_version,
                    seq_inventario_version, corridas, jtipo, jfuente, jver,
                    jlote, jtotal, antes, solo, repetida, ultimo >>

\* rollback of the job's transaction
MRollback(db, w) == db

MCommitted(db, w) ==
    [ver |-> { IF v.id_version \in w.activar
                 THEN [v EXCEPT !.estado_version = "Activa"]
               ELSE IF v.id_version \in w.inactivar
                 THEN [v EXCEPT !.estado_version = "Inactiva"]
               ELSE v : v \in db.ver \cup w.versiones },
     fil |-> db.fil \cup w.filas,
     act |-> Upsert(db.act, w.actual)]

BaseMaestra ==
    [ver |-> maestra_tiendas_version, fil |-> maestra_tiendas_filas,
     act |-> maestra_tiendas_actual]

PonerMaestra(db) ==
    /\ maestra_tiendas_version' = db.ver
    /\ maestra_tiendas_filas' = db.fil
    /\ maestra_tiendas_actual' = db.act

\* except: conn.rollback(); raise
MAbortar(j) ==
    /\ PonerMaestra(MRollback(BaseMaestra, jtx[j]))
    /\ jtx' = [jtx EXCEPT ![j] = SinEscriturasM]
    /\ jpc' = [jpc EXCEPT ![j] = "failed"]
    /\ Termina(j, FALSE)

\* upsert_actual: the version's rows go into the projection; two rows with
\* one llave_naval make the statement fail
upsert_actual(j) ==
    /\ jpc[j] = "actual"
    /\ LET propuestas == FilasActual(jtx[j].filas, jver[j])
       IN IF ConflictoDoble(propuestas)
            THEN MAbortar(j)
            ELSE /\ jtx' = [jtx EXCEPT ![j].actual = propuestas]
                 /\ jpc' = [jpc EXCEPT ![j] = "activar"]
                 /\ UNCHANGED << maestra_tiendas_version,
                                 maestra_tiendas_filas,
                                 maestra_tiendas_actual, ultimo >>
    /\ UNCHANGED << varsLote, varsCache, varsGuardar, inventario_version, inventario_existencias,
                    seq_maestra_version, seq_inventario_version, corridas,
                    jtipo, jfuente, jver, jlote, jtotal, antes, solo,
                    repetida >>

\* set_version_active: every committed Active version is turned Inactiva,
\* then the new one Activa (both pending until the commit)
set_version_active(j) ==
    /\ jpc[j] = "activar" /\ jtipo[j] = "maestra"
    /\ jtx' = [jtx EXCEPT
                 ![j].inactivar = { v.id_version :
                                    v \in ActivasM(maestra_tiendas_version) },
                 ![j].activar = { jver[j] }]
    /\ jpc' = [jpc EXCEPT ![j] = "commit"]
    /\ UNCHANGED << varsLote, varsCache, varsGuardar, tablasIngesta, seq_maestra_version,
                    seq_inventario_version, corridas, jtipo, jfuente, jver,
                    jlote, jtotal, antes, solo, repetida, ultimo >>

\* conn.commit()
MCommit(j) ==
    /\ jpc[j] = "commit" /\ jtipo[j] = "maestra"
    /\ PonerMaestra(MCommitted(BaseMaestra, jtx[j]))
    /\ jtx' = [jtx EXCEPT ![j] = SinEscriturasM]
    /\ jpc' = [jpc EXCEPT ![j] = "done"]
    /\ Termina(j, TRUE)
    /\ UNCHANGED << varsLote, varsCache, varsGuardar, inventario_version, inventario_existencias,
                    seq_maestra_version, seq_inventario_version, corridas,
                    jtipo, jfuente, jver, jlote, jtotal, antes, solo,
                    repetida >>

\* any statement of the transaction raises, or the process dies
MFalla(j) ==
    /\ jtipo[j] = "maestra"
    /\ jpc[j] \in { "hash", "crear", "staging", "filas", "actual", "activar",
                    "commit" }
    /\ MAbortar(j)
    /\ UNCHANGED << varsLote, varsCache, varsGuardar, inventario_version, inventario_existencias,
                    seq_maestra_version, seq_inventario_version, corridas,
                    jtipo, jfuente, jver, jlote, jtotal, antes, solo,
                    repetida >>

\* ----- inventario_job.main: every repository call is its own transaction
IIniciar(j, d) ==
    /\ Arrancar(j, "inventario", d)
    /\ jpc' = [jpc EXCEPT ![j] = "crear"]

\* crear_version: fetch_one commits the INSERT
crear_version(j) ==
    /\ jpc[j] = "crear" /\ jtipo[j] = "inventario"
    /\ seq_inventario_version' = seq_inventario_version + 1
    /\ jver' = [jver EXCEPT ![j] = seq_inventario_version + 1]
    /\ inventario_version' = inventario_version \cup
           { [id_version_inventario |-> seq_inventario_version + 1,
              estado_version |-> "Inactiva", filas_total |-> 0] }
    /\ jpc' = [jpc EXCEPT ![j] = "universo"]
    /\ UNCHANGED << varsLote, varsCache, varsGuardar, maestra_tiendas_version,
                    maestra_tiendas_filas, maestra_tiendas_actual,
                    inventario_existencias, seq_maestra_version, corridas,
                    jtipo, jfuente, jtx, jlote, jtotal, antes, solo,
                    repetida, ultimo >>

\* get_referencias_universo: an empty universe raises SystemExit
get_referencias_universo(j) ==
    /\ jpc[j] = "universo"
    /\ IF Len(jfuente[j]) = 0
         THEN /\ jpc' = [jpc EXCEPT ![j] = "failed"]
              /\ Termina(j, FALSE)
              /\ UNCHANGED jlote
         ELSE /\ jpc' = [jpc EXCEPT ![j] = "lote"]
              /\ jlote' = [jlote EXCEPT ![j] = 1]
              /\ UNCHANGED ultimo
    /\ UNCHANGED << varsLote, varsCache, varsGuardar, tablasIngesta, seq_maestra_version,
                    seq_inventario_version, corridas, jtipo, jfuente, jver,
                    jtx, jtotal, antes, solo, repetida >>

HashDoble(filas) ==
    \E a, b \in 1..Len(filas) : a # b /\ filas[a].hash_fila = filas[b].hash_fila

FilasLote(id, filas) ==
    { [id_version_inventario |-> id,
       referencia_sku |-> filas[i].referencia_sku, talla |-> filas[i].talla,
       disponible |-> filas[i].disponible, hash_fila |-> filas[i].hash_fila] :
      i \in 1..Len(filas) }

\* ON CONFLICT (id_version_inventario, hash_fila) DO UPDATE: the row keeps
\* its key columns and takes the new disponible
UpsertExistencias(tabla, nuevas) ==
    { IF \E n \in nuevas : /\ n.id_version_inventario = e.id_version_inventario
                           /\ n.hash_fila = e.hash_fila
        THEN [e EXCEPT !.disponible =
                 (CHOOSE n \in nuevas :
                     /\ n.id_version_inventario = e.id_version_inventario
                     /\ n.hash_fila = e.hash_fila).disponible]
        ELSE e : e \in tabla }
    \cup { n \in nuevas :
             \A e \in tabla : \/ e.id_version_inventario # n.id_version_inventario
                              \/ e.hash_fila # n.hash_fila }

\* one turn of the batch loop: the API answer is mapped and inserted in one
\* committed transaction; a statement that proposes one hash_fila twice
\* fails and ends the run
insertar_lote_bulk(j) ==
    /\ jpc[j] = "lote"
    /\ LET datos == jfuente[j][jlote[j]]
           filas == [i \in 1..Len(datos) |-> mapear_datos_api(datos[i])]
       IN IF HashDoble(filas)
            THEN /\ jpc' = [jpc EXCEPT ![j] = "failed"]
                 /\ Termina(j, FALSE)
                 /\ UNCHANGED << inventario_existencias, jlote, jtotal >>
            ELSE /\ inventario_existencias' =
                       UpsertExistencias(inventario_existencias,
                                         FilasLote(jver[j], filas))
                 /\ jtotal' = [jtotal EXCEPT ![j] = @ + Len(filas)]
                 /\ IF jlote[j] = Len(jfuente[j])
                      THEN /\ jpc' = [jpc EXCEPT ![j] = "desactivar"]
                           /\ UNCHANGED jlote
                      ELSE /\ jlote' = [jlote EXCEPT ![j] = @ + 1]
                           /\ UNCHANGED jpc
                 /\ UNCHANGED ultimo
    /\ UNCHANGED << varsLote, varsCache, varsGuardar, maestra_tiendas_version,
                    maestra_tiendas_filas, maestra_tiendas_actual,
                    inventario_version, seq_maestra_version,
                    seq_inventario_version, corridas, jtipo, jfuente, jver,
                    jtx, antes, solo, repetida >>

\* marcar_version_activa, first repo.execute: committed on its own
marcar_version_activa_1(j) ==
    /\ jpc[j] = "desactivar"
    /\ inventario_version' =
           { IF v.estado_version = "Activa"
               THEN [v EXCEPT !.estado_version = "Inactiva"] ELSE v :
             v \in inventario_version }
    /\ jpc' = [jpc EXCEPT ![j] = "activar"]
    /\ UNCHANGED << varsLote, varsCache, varsGuardar, maestra_tiendas_version,
                    maestra_tiendas_filas, maestra_tiendas_actual,
                    inventario_existencias, seq_maestra_version,
                    seq_inventario_version, corridas, jtipo, jfuente, jver,
                    jtx, jlote, jtotal, antes, solo, repetida, ultimo >>

\* marcar_version_activa, second repo.execute: committed on its own
marcar_version_activa_2(j) ==
    /\ jpc[j] = "activar" /\ jtipo[j] = "inventario"
    /\ inventario_version' =
           { IF v.id_version_inventario = jver[j]
               THEN [v EXCEPT !.estado_version = "Activa",
                              !.filas_total = jtotal[j]]
               ELSE v : v \in inventario_version }
    /\ jpc' = [jpc EXCEPT ![j] = "refresh"]
    /\ UNCHANGED << varsLote, varsCache, varsGuardar, maestra_tiendas_version,
                    maestra_tiendas_filas, maestra_tiendas_actual,
                    inventario_existencias, seq_maestra_version,
                    seq_inventario_version, corridas, jtipo, jfuente, jver,
                    jtx, jlote, jtotal, antes, solo, repetida, ultimo >>

\* repo.execute("SELECT public.refresh_inventario_actual();"): the function
\* is defined in the database, outside the tables kept here
refresh_inventario_actual(j) ==
    /\ jpc[j] = "refresh"
    /\ jpc' = [jpc EXCEPT ![j] = "done"]
    /\ Termina(j, TRUE)
    /\ UNCHANGED << varsLote, varsCache, varsGuardar, tablasIngesta, seq_maestra_version,
                    seq_inventario_version, corridas, jtipo, jfuente, jver,
                    jtx, jlote, jtotal, antes, solo, repetida >>

\* a repository or API call raises, or the process dies: what earlier calls
\* committed stays
IFalla(j) ==
    /\ jtipo[j] = "inventario"
    /\ jpc[j] \in { "crear", "universo", "lote", "desactivar", "activar",
                    "refresh" }
    /\ jpc' = [jpc EXCEPT ![j] = "failed"]
    /\ Termina(j, FALSE)
    /\ UNCHANGED << varsLote, varsCache, varsGuardar, tablasIngesta, seq_maestra_version,
                    seq_inventario_version, corridas, jtipo, jfuente, jver,
                    jtx, jlote, jtotal, antes, solo, repetida >>

NextIngesta ==
    \E j \in Jobs :
        \/ \E f \in Archivos : MIniciar(j, f)
        \/ read_tsv(j)
        \/ get_active_version_hash(j)
        \/ create_new_version(j)
        \/ truncate_staging(j)
        \/ MInsertFilas(j)
        \/ upsert_actual(j)
        \/ set_version_active(j)
        \/ MCommit(j)
        \/ MFalla(j)
        \/ \E d \in Datos : IIniciar(j, d)
        \/ crear_version(j)
        \/ get_referencias_universo(j)
        \/ insertar_lote_bulk(j)
        \/ marcar_version_activa_1(j)
        \/ marcar_version_activa_2(j)
        \/ refresh_inventario_actual(j)
        \/ IFalla(j)

SpecIngesta == Init /\ [][NextIngesta]_vars

\* --------------------------------------------- claims on the ingestion jobs
Activas(tipo) ==
    IF tipo = "maestra" THEN ActivasM(maestra_tiendas_version)
    ELSE ActivasI(inventario_version)

\* job j takes a step
Paso(j) == << jpc[j], jlote[j] >> # << jpc'[j], jlote'[j] >>

\* C2: in every committed state, each dataset has at most one version with
\* estado_version = 'Activa', also when runs of its job overlap.
C2_UnaVersionActiva ==
    \A t \in Tipos : Cardinality(Activas(t)) <= 1

\* C5: a run that directly follows a successful run on the same source, with
\* no other run of the dataset in between or alongside, adds no version row
\* and no data row, changes no projection row and leaves the Active version
\* as it is.
C5_RepeticionSinCambios ==
    [][ \A j \in Jobs : (~JLibre(j) /\ Paso(j) /\ repetida[j]) =>
            Tablas(jtipo[j])' = antes[j] ]_vars

\* C6: once a dataset has an Active version, every later committed state has
\* one: no step leaves the dataset without Active version.
C6_SiempreUnaActiva ==
    [][ \A t \in Tipos : Activas(t) # {} => Activas(t)' # {} ]_vars

\* C8: when a run that no other run of the dataset overlaps fails, the
\* dataset's committed tables are what they were when it started: no new
\* version row, no data row, and the same version Active.
C8_FallaSinCambios ==
    [][ \A j \in Jobs :
          (~JLibre(j) /\ jpc'[j] = "failed" /\ solo[j]) =>
              Tablas(jtipo[j])' = antes[j] ]_vars

\* ------------------------------------------- vista_segmentacion read path
restoCache == << varsGuardar, maestra_tiendas_version, varsIngesta, varsLote >>

\* a request arrives
Entrar(r) ==
    /\ rpc[r] \in { "idle", "done" }
    /\ lecturas < MaxLecturas
    /\ lecturas' = lecturas + 1
    /\ rpc' = [rpc EXCEPT ![r] = "get"]
    /\ cached' = [cached EXCEPT ![r] = {}]
    /\ got_lock' = [got_lock EXCEPT ![r] = FALSE]
    /\ cached2' = [cached2 EXCEPT ![r] = {}]
    /\ referencias' = [referencias EXCEPT ![r] = << >>]
    /\ inicio' = [inicio EXCEPT ![r] = 0]
    /\ despierta' = [despierta EXCEPT ![r] = 0]
    /\ llamo' = [llamo EXCEPT ![r] = FALSE]
    /\ UNCHANGED << restoCache, refresco, app_cache, candado, tiempo, ticks >>

\* cached = cache.get(KEY); if cache.is_fresh(cached, TTL): use its payload
CacheGet(r) ==
    /\ rpc[r] = "get"
    /\ cached' = [cached EXCEPT ![r] = app_cache]
    /\ IF is_fresh(app_cache, CACHE_TTL_SECONDS, tiempo)
         THEN /\ referencias' = [referencias EXCEPT ![r] = PayloadO(app_cache)]
              /\ rpc' = [rpc EXCEPT ![r] = "done"]
         ELSE /\ rpc' = [rpc EXCEPT ![r] = "try_lock"]
              /\ UNCHANGED referencias
    /\ UNCHANGED << restoCache, refresco, app_cache, candado, tiempo, ticks, lecturas,
                    got_lock, cached2, inicio, despierta, llamo >>

\* try_lock: fetch_one opens a connection and runs pg_try_advisory_lock in
\* it; the lock is granted to that session if no open session holds it
try_lock(r) ==
    /\ rpc[r] = "try_lock"
    /\ got_lock' = [got_lock EXCEPT ![r] = (candado = {})]
    /\ candado' = IF candado = {} THEN {r} ELSE candado
    /\ rpc' = [rpc EXCEPT ![r] = "try_lock_close"]
    /\ UNCHANGED << restoCache, refresco, app_cache, tiempo, ticks, lecturas, cached,
                    cached2, referencias, inicio, despierta, llamo >>

\* fetch_one leaves "with self._conn()": conn.close() ends the session and
\* with it every session-level advisory lock the session holds
AlCerrar_retiene(c, r) == c

\* conn.close(): the session's advisory locks are released
AlCerrar(c, r) == c \ {r}

CerrarSesion(r) ==
    /\ rpc[r] = "try_lock_close"
    /\ candado' = AlCerrar(candado, r)
    /\ rpc' = [rpc EXCEPT ![r] = IF got_lock[r] THEN "upstream" ELSE "wait"]
    /\ UNCHANGED << restoCache, refresco, app_cache, tiempo, ticks, lecturas, cached,
                    got_lock, cached2, referencias, inicio, despierta, llamo >>

\* lock-holder path: servicio.obtener_referencias() returns a list or raises;
\* on an exception the stale payload, or [], is used
obtener_referencias(r) ==
    /\ rpc[r] = "upstream"
    /\ llamo' = [llamo EXCEPT ![r] = TRUE]
    /\ \/ \E datos \in Respuestas :
            /\ referencias' = [referencias EXCEPT ![r] = datos]
            /\ rpc' = [rpc EXCEPT ![r] = "set"]
       \/ /\ referencias' = [referencias EXCEPT ![r] = PayloadO(cached[r])]
          /\ rpc' = [rpc EXCEPT ![r] = "unlock"]
    /\ UNCHANGED << restoCache, refresco, app_cache, candado, tiempo, ticks, lecturas,
                    cached, got_lock, cached2, inicio, despierta >>

\* cache.set(KEY, referencias)
CacheSet(r) ==
    /\ rpc[r] \in { "set", "fbset" }
    /\ app_cache' = { FilaCache(referencias[r], tiempo) }
    /\ rpc' = [rpc EXCEPT ![r] = IF rpc[r] = "set" THEN "unlock" ELSE "done"]
    /\ UNCHANGED << restoCache, refresco, candado, tiempo, ticks, lecturas, cached,
                    got_lock, cached2, referencias, inicio, despierta, llamo >>

\* finally: cache.unlock(LOCK_KEY) runs pg_advisory_unlock in a session of
\* its own, which holds no lock: nothing is released
unlock(r) ==
    /\ rpc[r] = "unlock"
    /\ rpc' = [rpc EXCEPT ![r] = "done"]
    /\ UNCHANGED << restoCache, refresco, app_cache, candado, tiempo, ticks, lecturas,
                    cached, got_lock, cached2, referencias, inicio, despierta,
                    llamo >>

EnPlazo_sin_limite(start, t, max_wait) == t >= start

\* the loop condition of wait_for_refresh: (time.time() - start) < max_wait
EnPlazo(start, t, max_wait) == t - start < Ms(max_wait)

\* wait_for_refresh: start = time.time()
EmpezarEspera(r) ==
    /\ rpc[r] = "wait"
    /\ inicio' = [inicio EXCEPT ![r] = tiempo]
    /\ rpc' = [rpc EXCEPT ![r] = "poll"]
    /\ UNCHANGED << restoCache, refresco, app_cache, candado, tiempo, ticks, lecturas,
                    cached, got_lock, cached2, referencias, despierta, llamo >>

\* one turn of the loop, or its end: a fresh entry is returned at once, the
\* entry then present after max_wait_seconds
wait_for_refresh(r) ==
    /\ rpc[r] = "poll"
    /\ cached2' = [cached2 EXCEPT ![r] = app_cache]
    /\ IF EnPlazo(inicio[r], tiempo, max_wait_seconds)
            /\ ~is_fresh(app_cache, CACHE_TTL_SECONDS, tiempo)
         THEN /\ despierta' = [despierta EXCEPT ![r] = tiempo + PollMs]
              /\ rpc' = [rpc EXCEPT ![r] = "sleep"]
         ELSE /\ rpc' = [rpc EXCEPT ![r] = "waited"]
              /\ UNCHANGED despierta
    /\ UNCHANGED << restoCache, refresco, app_cache, candado, tiempo, ticks, lecturas,
                    cached, got_lock, referencias, inicio, llamo >>

\* time.sleep(0.25) returns
Despertar(r) ==
    /\ rpc[r] = "sleep"
    /\ tiempo >= despierta[r]
    /\ rpc' = [rpc EXCEPT ![r] = "poll"]
    /\ UNCHANGED << restoCache, refresco, app_cache, candado, tiempo, ticks, lecturas,
                    cached, got_lock, cached2, referencias, inicio, despierta,
                    llamo >>

\* time.sleep(0.25) is running: the clock reaches the end of the pause
\* (the clock of the model stops at the horizon that the bounded number of
\* clock jumps and of waits can reach)
Dormir(r) ==
    /\ rpc[r] = "sleep"
    /\ tiempo < despierta[r]
    /\ despierta[r] <= MaxTicks * Ms(CACHE_TTL_SECONDS)
                         + MaxLecturas * (Ms(max_wait_seconds) + PollMs)
    /\ tiempo' = despierta[r]
    /\ UNCHANGED << restoCache, refresco, app_cache, candado, ticks, lecturas,
                    rpc, cached, got_lock, cached2, referencias, inicio,
                    despierta, llamo >>

TrasEspera_sin_fallback(r) ==
    /\ rpc[r] = "waited"
    /\ referencias' = [referencias EXCEPT ![r] = PayloadO(cached2[r])]
    /\ rpc' = [rpc EXCEPT ![r] = "done"]
    /\ UNCHANGED << restoCache, refresco, app_cache, candado, tiempo, ticks,
                    lecturas, cached, got_lock, cached2, inicio, despierta,
                    llamo >>

\* referencias = (cached2 or {}).get("payload") or []
TrasEspera(r) ==
    /\ rpc[r] = "waited"
    /\ referencias' = [referencias EXCEPT ![r] = PayloadO(cached2[r])]
    /\ rpc' = [rpc EXCEPT ![r] =
                  IF PayloadO(cached2[r]) = << >> THEN "fallback" ELSE "done"]
    /\ UNCHANGED << restoCache, refresco, app_cache, candado, tiempo, ticks, lecturas,
                    cached, got_lock, cached2, inicio, despierta, llamo >>

\* "fallback extremo": nothing to show, the reader calls the upstream itself
FallbackExtremo(r) ==
    /\ rpc[r] = "fallback"
    /\ llamo' = [llamo EXCEPT ![r] = TRUE]
    /\ \/ \E datos \in Respuestas :
            /\ referencias' = [referencias EXCEPT ![r] = datos]
            /\ rpc' = [rpc EXCEPT ![r] = "fbset"]
       \/ /\ referencias' = [referencias EXCEPT ![r] = << >>]
          /\ rpc' = [rpc EXCEPT ![r] = "done"]
    /\ UNCHANGED << restoCache, refresco, app_cache, candado, tiempo, ticks, lecturas,
                    cached, got_lock, cached2, inicio, despierta >>

\* api_refresh_cache_referencias: servicio.obtener_referencias() returns a
\* list or raises; nothing catches the exception, so the request ends with
\* an error response
RefrescarLlamar ==
    /\ refresco.pc \in { "idle", "ok", "error" }
    /\ lecturas < MaxLecturas
    /\ lecturas' = lecturas + 1
    /\ \/ \E datos \in Respuestas :
            refresco' = [pc |-> "set", referencias |-> datos]
       \/ refresco' = [pc |-> "error", referencias |-> << >>]
    /\ UNCHANGED << restoCache, app_cache, candado, tiempo, ticks, rpc, cached,
                    got_lock, cached2, referencias, inicio, despierta, llamo >>

\* api_refresh_cache_referencias: cache.set(KEY, referencias), then the
\* {"ok": True, ...} response
RefrescarSet ==
    /\ refresco.pc = "set"
    /\ app_cache' = { FilaCache(refresco.referencias, tiempo) }
    /\ refresco' = [refresco EXCEPT !.pc = "ok"]
    /\ UNCHANGED << restoCache, candado, tiempo, ticks, lecturas, rpc, cached,
                    got_lock, cached2, referencias, inicio, despierta, llamo >>

\* time passes
Tick(d) ==
    /\ ticks < MaxTicks
    /\ ticks' = ticks + 1
    /\ tiempo' = tiempo + d
    /\ UNCHANGED << restoCache, refresco, app_cache, candado, lecturas, rpc, cached,
                    got_lock, cached2, referencias, inicio, despierta, llamo >>

NextCache ==
    \/ \E d \in Saltos : Tick(d)
    \/ RefrescarLlamar
    \/ RefrescarSet
    \/ \E r \in Readers :
        \/ Entrar(r)
        \/ CacheGet(r)
        \/ try_lock(r)
        \/ CerrarSesion(r)
        \/ obtener_referencias(r)
        \/ CacheSet(r)
        \/ unlock(r)
        \/ EmpezarEspera(r)
        \/ wait_for_refresh(r)
        \/ Despertar(r)
        \/ TrasEspera(r)
        \/ FallbackExtremo(r)

SpecCache == InitCache /\ [][NextCache]_vars

\* the cache with the clock running during the pauses of wait_for_refresh;
\* a waiting reader's thread keeps running and its pauses end, while
\* nothing is assumed about the other requests
Espera(r) ==
    EmpezarEspera(r) \/ wait_for_refresh(r) \/ Despertar(r) \/ Dormir(r)

NextEspera ==
    \/ NextCache
    \/ \E r \in Readers : Dormir(r)

SpecEspera ==
    InitCache /\ [][NextEspera]_vars /\ \A r \in Readers : WF_vars(Espera(r))

\* ------------------------------------------------- claims on the cache
\* reader r has read the key and found no entry, and has not yet returned
LeeEnFrio(r) == rpc[r] \notin { "idle", "get", "done" } /\ cached[r] = {}

\* C3: of the readers that read the key without cache entry and whose
\* requests overlap, at most one calls the upstream catalog.
C3_UnSoloRefresco ==
    \A a, b \in Readers :
        (a # b /\ LeeEnFrio(a) /\ LeeEnFrio(b)) => ~(llamo[a] /\ llamo[b])

\* ----------------------------------------------------------- bulk loaders
\* the tables before any load; the schema is not part of the repository, so
\* inventario_movimientos may or may not carry a unique index on hash_fila
InitCargas ==
    /\ InitGuardar
    /\ MaestraVacia
    /\ InitJobs
    /\ InitLectores
    /\ app_cache = {}
    /\ InitLote
    /\ indice_unico_mov \in BOOLEAN

restoLote == << varsGuardar, varsCache, maestra_tiendas_version,
                maestra_tiendas_filas, maestra_tiendas_actual,
                seq_maestra_version, inventario_version,
                seq_inventario_version, corridas, jpc, jtipo, jfuente, jver,
                jtx, jlote, jtotal, antes, solo, repetida, ultimo,
                indice_unico_mov >>

\* with a unique index, the statement fails on a hash_fila the version
\* already holds or the statement carries twice
ViolaIndiceMov(tabla, id, filas) ==
    \/ HashDoble(filas)
    \/ \E i \in 1..Len(filas), e \in tabla :
          e.id_version_movimiento = id /\ e.hash_fila = filas[i].hash_fila

\* the hash_fila values a batch carries, in order
HashesDe(c, lote) ==
    [i \in 1..Len(lote) |->
        IF c = "inventario" THEN mapear_datos_api(lote[i]).hash_fila
        ELSE IF c = "movimiento" THEN build_hash_fila_mov(lote[i])
        ELSE HashVenta(lote[i])]

\* a loader is called on a batch for a version; llamada and hechos record
\* the call, whether it returned, and whether a batch with the same
\* hash_fila values had been loaded into the version before
Llamar(c, v, lote, ok) ==
    /\ llamada.n < MaxLlamadas
    /\ llamada' = [n |-> llamada.n + 1, cargador |-> c, version |-> v,
                   lote |-> lote, ok |-> ok,
                   repetido |-> << c, v, HashesDe(c, lote) >> \in hechos]
    /\ hechos' = IF ok THEN hechos \cup { << c, v, HashesDe(c, lote) >> }
                 ELSE hechos

\* inventario_job.insertar_lote_bulk
LoteInventario(v, lote) ==
    LET filas == [i \in 1..Len(lote) |-> mapear_datos_api(lote[i])]
    IN /\ Llamar("inventario", v, lote, ~HashDoble(filas))
       /\ inventario_existencias' =
             IF HashDoble(filas) THEN inventario_existencias
             ELSE UpsertExistencias(inventario_existencias, FilasLote(v, filas))
       /\ UNCHANGED << restoLote, inventario_movimientos, ventas_movimientos >>

\* inventario_movimiento_job.insertar_lote_bulk
LoteMovimiento(v, lote) ==
    LET filas == [i \in 1..Len(lote) |-> FilaMovimiento(lote[i])]
        falla == indice_unico_mov
                   /\ ViolaIndiceMov(inventario_movimientos, v, filas)
    IN /\ Llamar("movimiento", v, lote, ~falla)
       /\ inventario_movimientos' =
             IF falla THEN inventario_movimientos
             ELSE InsertMovimientos(inventario_movimientos, v, filas)
       /\ UNCHANGED << restoLote, inventario_existencias, ventas_movimientos >>

\* ventas_job.stage_to_final on the staging rows of a version
LoteVentas(v, staging) ==
    /\ Llamar("ventas", v, staging, TRUE)
    /\ ventas_movimientos' \in stage_to_final(ventas_movimientos, v, staging)
    /\ UNCHANGED << restoLote, inventario_existencias, inventario_movimientos >>

NextCargas ==
    \E v \in Versiones :
        \/ \E lote \in LotesI : LoteInventario(v, lote)
        \/ \E lote \in LotesMov : LoteMovimiento(v, lote)
        \/ \E staging \in LotesVentas : LoteVentas(v, staging)

SpecCargas == InitCargas /\ [][NextCargas]_vars

\* ------------------------------------------- claims on the bulk loaders
\* the rows a loader's table holds, as (version, hash_fila, value columns)
FilasCargador(c) ==
    IF c = "inventario"
      THEN { [fila |-> e, version |-> e.id_version_inventario,
              hash_fila |-> e.hash_fila, valor |-> e.disponible] :
             e \in inventario_existencias }
    ELSE IF c = "movimiento"
      THEN { [fila |-> e, version |-> e.id_version_movimiento,
              hash_fila |-> e.hash_fila, valor |-> e.cantidad_neta] :
             e \in inventario_movimientos }
    ELSE { [fila |-> e, version |-> e.id_version_ventas,
            hash_fila |-> e.hash_fila, valor |-> e.pvp] :
           e \in ventas_movimientos }

ValorDe(c, it) ==
    IF c = "inventario" THEN it.disponible
    ELSE IF c = "movimiento" THEN it.cantidad_neta
    ELSE it.pvp

\* C11: when a loader is given, for a version, a batch whose hash_fila values
\* are those of a batch it loaded into that version before, the table holds
\* as many rows as before, and for each row of the batch exactly one row of
\* the version with its hash_fila, carrying the batch's values.
C11_LoteRepetido ==
    [][ \A c \in Cargadores, v \in Versiones :
          ( /\ llamada'.n # llamada.n
            /\ llamada'.cargador = c /\ llamada'.version = v
            /\ llamada'.repetido ) =>
          /\ Cardinality(FilasCargador(c)') = Cardinality(FilasCargador(c))
          /\ \A i \in 1..Len(llamada'.lote) :
               LET h == HashesDe(c, llamada'.lote)[i]
                   filas == { e \in FilasCargador(c)' :
                                e.version = v /\ e.hash_fila = h }
               IN /\ Cardinality(filas) = 1
                  /\ \A e \in filas : e.valor = ValorDe(c, llamada'.lote[i])
      ]_vars

\* ------------------------------------------------- claims on the cache, 2
\* C12: a read at time t of an entry written at t0 takes the entry as fresh
\* exactly when t0 <= t < t0 + ttl, both in the first read of a request and
\* in each poll of wait_for_refresh; the row stores no freshness.
FrescaSegunSpec(x, t) ==
    x.updated_at <= t /\ t < x.updated_at + 1000 * CACHE_TTL_SECONDS

C12_FrescuraEnLimite ==
    [][ \A r \in Readers : \A x \in app_cache :
          /\ (rpc[r] = "get" /\ rpc'[r] # "get") =>
                (rpc'[r] = "done" <=> FrescaSegunSpec(x, tiempo))
          /\ ( /\ rpc[r] = "poll" /\ rpc'[r] # "poll"
               /\ tiempo - inicio[r] < Ms(max_wait_seconds) ) =>
                (rpc'[r] = "waited" <=> FrescaSegunSpec(x, tiempo))
          /\ DOMAIN x = { "payload", "updated_at" }
      ]_vars

\* a reader has found the entry stale at exactly t0 + ttl
C12_Testigo ==
    \E r \in Readers : \E x \in cached[r] :
        /\ rpc[r] = "try_lock"
        /\ tiempo = x.updated_at + 1000 * CACHE_TTL_SECONDS

\* a source file whose header lacks a column the roster is built from
FaltaColumna(f) == f.cabecera # {} /\ ColumnasMaestra \ f.cabecera # {}

\* C13: a run whose source header lacks an expected column fails before
\* writing anything: with no other run of the dataset alongside, none of
\* its steps creates a version row, inserts a data row, changes the
\* projection or changes which version is Active.
C13_EsquemaIncompleto ==
    [][ \A j \in Jobs :
          ( /\ ~JLibre(j) /\ jtipo[j] = "maestra" /\ solo[j]
            /\ FaltaColumna(jfuente[j]) /\ Paso(j) ) =>
              Tablas("maestra")' = antes[j] ]_vars

\* C14: a save attempted while the roster has no version with
\* estado_version = 'Activa' ends in an error at its first statement, and
\* that step leaves every header, every detail line and every segmented_at
\* marker as it was.
C14_SinVersionActiva ==
    [][ \A w \in Workers :
          ( /\ pc[w] = "version" /\ pc'[w] # "version"
            /\ ActivasM(maestra_tiendas_version) = {} ) =>
              /\ pc'[w] = "error"
              /\ tablas' = tablas ]_vars

\* C14 witness: a save with a valid payload ended in an error while the
\* roster had no Active version, before it took any lock or wrote anything.
C14_Testigo ==
    \E w \in Workers :
        /\ pc[w] = "error"
        /\ ActivasM(maestra_tiendas_version) = {}
        /\ NuevaActiva(payload[w].detalle)
        /\ last_id[w] = 0 /\ id_seg[w] = 0

\* C15: in every committed state, every detail line with estado_detalle
\* 'Activo' has cantidad > 0 and every detail line with estado_detalle
\* 'Inactivo' has cantidad = 0.
C15_CantidadSegunEstado ==
    \A d \in BagToSet(segmentacion_detalle) :
        /\ d.estado_detalle = "Activo" => d.cantidad > 0
        /\ d.estado_detalle = "Inactivo" => d.cantidad = 0

\* C15 witness: a save whose payload had a line with cantidad 0 committed,
\* and the table holds both an Activo line and an Inactivo line.
C15_Testigo ==
    /\ \E w \in Workers :
          /\ pc[w] = "ok"
          /\ \E i \in 1..Len(payload[w].detalle) : payload[w].detalle[i].cantidad = 0
    /\ \E d \in BagToSet(segmentacion_detalle) : d.estado_detalle = "Activo"
    /\ \E d \in BagToSet(segmentacion_detalle) : d.estado_detalle = "Inactivo"

\* C16: in every committed state, no header has two detail lines with the
\* same (llave_naval, talla) pair, whatever list a save accepted.
C16_ParUnicoPorCabecera ==
    \A d \in BagToSet(segmentacion_detalle) :
        /\ CopiesIn(d, segmentacion_detalle) = 1
        /\ \A e \in BagToSet(segmentacion_detalle) :
              (e.id_segmentacion = d.id_segmentacion /\ ClaveDe(e) = ClaveDe(d)) => e = d

\* C17: when the upstream catalog call fails, during a cache read (the
\* lock-holder path or the fallback path) or during a cache refresh, the
\* caller is answered with the last cached payload it knows ([] when there
\* is none), the request does not end in an error, and the stored cache
\* entry is left as it was.
C17_FalloDelCatalogo ==
    [][ /\ \A r \in Readers :
              /\ (rpc[r] = "upstream" /\ rpc'[r] = "unlock") =>
                    /\ referencias'[r] = PayloadO(cached[r])
                    /\ app_cache' = app_cache
              /\ (rpc[r] = "fallback" /\ rpc'[r] = "done") =>
                    /\ referencias'[r] = PayloadO(cached2[r])
                    /\ app_cache' = app_cache
        /\ (refresco' # refresco /\ refresco.pc # "set" /\ refresco'.pc # "set") =>
              /\ refresco'.pc = "ok"
              /\ refresco'.referencias = PayloadO(app_cache)
              /\ app_cache' = app_cache ]_vars

C19_LockLiberado ==
    \A r \in Readers : rpc[r] = "done" => r \notin candado

\* C19 witness: two reads that had acquired the lock have returned, one
\* after a successful refresh and one after the upstream call raised.
C19_Testigo ==
    \E a, b \in Readers :
        /\ rpc[a] = "done" /\ got_lock[a]
        /\ \E x \in app_cache : x.payload = referencias[a] /\ x.updated_at > 0
        /\ rpc[b] = "done" /\ got_lock[b] /\ referencias[b] = PayloadO(cached[b])
        /\ \A x \in app_cache : x.payload # referencias[b]

\* C20: a reader that failed to acquire the lock always leaves
\* wait_for_refresh, with the entry of its last poll, whether or not the
\* lock holder ever finishes: it returns the entry present at a poll that
\* finds it fresh or that comes after the maximum wait, and it pauses only
\* after a poll within the maximum wait that found no fresh entry.
C20_EsperaTermina ==
    /\ \A r \in Readers : (rpc[r] = "wait") ~> (rpc[r] = "waited")
    /\ [][ \A r \in Readers :
              /\ (rpc[r] = "poll" /\ rpc'[r] = "waited") =>
                    /\ cached2'[r] = app_cache
                    /\ \/ is_fresh(app_cache, CACHE_TTL_SECONDS, tiempo)
                       \/ tiempo - inicio[r] >= Ms(max_wait_seconds)
              /\ (rpc[r] = "poll" /\ rpc'[r] = "sleep") =>
                    /\ ~is_fresh(app_cache, CACHE_TTL_SECONDS, tiempo)
                    /\ tiempo - inicio[r] < Ms(max_wait_seconds) ]_vars

\* C20 witness: a reader left wait_for_refresh after the maximum wait with
\* no entry, while the reader that got the lock is still calling the
\* upstream.
C20_Testigo ==
    \E a, b \in Readers :
        /\ rpc[a] = "upstream" /\ got_lock[a]
        /\ rpc[b] = "waited" /\ cached2[b] = {}
        /\ tiempo - inicio[b] >= Ms(max_wait_seconds)
        /\ ticks = 0

\* C21: a reader that lost the lock and ends its wait with no entry for the
\* key calls the upstream itself and, when the call answers, writes the
\* answer to the cache; a reader that ends its wait with an entry that has
\* data, stale or not, returns that data and does not call the upstream.
C21_FallbackExtremo ==
    [][ \A r \in Readers :
          /\ (rpc[r] = "waited" /\ rpc'[r] # "waited" /\ cached2[r] = {}) =>
                rpc'[r] = "fallback"
          /\ (rpc[r] = "fallback" /\ rpc'[r] # "fallback") =>
                /\ llamo'[r]
                /\ rpc'[r] = "fbset" \/ (rpc'[r] = "done" /\ referencias'[r] = << >>)
          /\ (rpc[r] = "fbset" /\ rpc'[r] # "fbset") =>
                /\ app_cache' = { FilaCache(referencias[r], tiempo) }
                /\ rpc'[r] = "done" /\ referencias'[r] = referencias[r]
          /\ (rpc[r] = "waited" /\ rpc'[r] # "waited" /\ PayloadO(cached2[r]) # << >>) =>
                /\ rpc'[r] = "done"
                /\ referencias'[r] = PayloadO(cached2[r])
                /\ ~llamo'[r] ]_vars

\* C21 witness: a reader that did not get the lock and whose wait ended with
\* no entry has called the upstream and its answer is the stored entry.
C21_Testigo ==
    \E r \in Readers :
        /\ rpc[r] = "done" /\ ~got_lock[r] /\ cached2[r] = {} /\ llamo[r]
        /\ referencias[r] # << >>
        /\ \E x \in app_cache : x.payload = referencias[r]

\* C22: each save that commits adds exactly one header, whose
\* estado_segmentacion at commit is 'Activa' if and only if the kept set is
\* non-empty; in every committed state every Activa header has at least one
\* Activo detail line.
C22_CabeceraPorGuardado ==
    /\ [][ \A w \in Workers : Confirma(w) =>
              /\ { h.id_segmentacion : h \in segmentacion' }
                     \ { h.id_segmentacion : h \in segmentacion } = { id_seg[w] }
              /\ \A h \in segmentacion' : h.id_segmentacion = id_seg[w] =>
                    (h.estado_segmentacion = "Activa"
                        <=> NewKeys(payload[w].detalle) # {}) ]_vars
    /\ [] \A h \in segmentacion : h.estado_segmentacion = "Activa" =>
              \E d \in FilasDe(segmentacion_detalle, h.id_segmentacion) :
                  d.estado_detalle = "Activo"

\* C22 witness: a save with an empty kept set has committed an Inactiva
\* header while another header is Activa.
C22_Testigo ==
    /\ \E w \in Workers :
          /\ pc[w] = "ok" /\ NewKeys(payload[w].detalle) = {}
          /\ \E h \in segmentacion :
                h.id_segmentacion = id_seg[w] /\ h.estado_segmentacion = "Inactiva"
    /\ \E h \in segmentacion : h.estado_segmentacion = "Activa"

\* C23: a save never deletes or rewrites earlier data: after its commit
\* every header committed before is still there with the same fields, except
\* that a header of the saved reference that was Activa may have become
\* Inactiva, and every detail line committed before is still there; no step
\* turns an Inactiva header Activa.
C23_HistoriaIntacta ==
    [][ /\ \A w \in Workers : Confirma(w) =>
              /\ \A h \in segmentacion :
                    \/ h \in segmentacion'
                    \/ /\ h.referencia = RefDe(w)
                       /\ h.estado_segmentacion = "Activa"
                       /\ [h EXCEPT !.estado_segmentacion = "Inactiva"] \in segmentacion'
              /\ \A d \in BagToSet(segmentacion_detalle) :
                    CopiesIn(d, segmentacion_detalle') >= CopiesIn(d, segmentacion_detalle)
        /\ \A h \in segmentacion, g \in segmentacion' :
              ( /\ h.id_segmentacion = g.id_segmentacion
                /\ h.estado_segmentacion = "Inactiva" ) => g = h
        /\ Cardinality({ h.id_segmentacion : h \in segmentacion' })
              = Cardinality(segmentacion') ]_vars

\* C23 witness: a save committed over an earlier Activa header of its
\* reference, which is now Inactiva next to the new header, with its detail
\* lines still stored.
C23_Testigo ==
    \E w \in Workers : \E h \in segmentacion :
        /\ pc[w] = "ok" /\ last_id[w] = h.id_segmentacion
        /\ h.id_segmentacion # id_seg[w]
        /\ h.estado_segmentacion = "Inactiva"
        /\ FilasDe(segmentacion_detalle, h.id_segmentacion) # {}
        /\ \E g \in segmentacion : g.id_segmentacion = id_seg[w]

C25_UltimaFilaGana ==
    \A j \in Jobs :
        ( /\ jtipo[j] = "maestra" /\ jpc[j] = "actual"
          /\ \E a, b \in jtx[j].filas :
                a.orden < b.orden /\ a.llave_naval = b.llave_naval ) =>
            ENABLED ( /\ upsert_actual(j)
                      /\ jpc'[j] = "activar"
                      /\ \A b \in jtx[j].filas :
                            (\A c \in jtx[j].filas :
                                c.llave_naval = b.llave_naval => c.orden <= b.orden)
                            => \E p \in jtx'[j].actual :
                                  /\ p.llave_naval = b.llave_naval
                                  /\ p.estado_linea = b.estado_linea )

\* C26: after the rows of a changed source are loaded under a new version id,
\* the rows stored under that id are exactly the rows parsed from the
\* source: every parsed row appears under the new version, also when a row
\* with the same hash_fila is stored under an earlier version.
C26_FilasDeLaVersion ==
    [][ \A v \in Versiones :
          ( /\ llamada'.n # llamada.n
            /\ llamada'.cargador = "ventas" /\ llamada'.version = v
            /\ \A e \in ventas_movimientos : e.id_version_ventas # v ) =>
              { e \in ventas_movimientos' : e.id_version_ventas = v }
                 = { FilaVenta(v, llamada'.lote[i]) : i \in 1..Len(llamada'.lote) }
      ]_vars

\* C27: in every committed state, for every reference that has an Activa
\* header, that header has the greatest fecha_creacion among the headers of
\* the reference, so the newest header by creation time is the live one;
\* also when saves for the same reference overlap.
C27_ActivaEsLaMasReciente ==
    \A h \in segmentacion : h.estado_segmentacion = "Activa" =>
        \A g \in segmentacion :
            (g.referencia = h.referencia /\ g.id_segmentacion # h.id_segmentacion)
                => g.fecha_creacion < h.fecha_creacion

\* C28: in every committed state, a reference's segmented_at is non-null
\* only if the reference has an Activa header, across any sequence of
\* guardar_segmentacion, marcar_como_segmentada and reset_segmentaciones.
C28_MarcaSoloConActiva ==
    \A v \in referencias_vistas :
        v.segmented_at # {} =>
            CabecerasActivas(segmentacion, v.referencia_sku) # {}

\* C29: a reader on the lock-holder path calls the upstream only if the
\* stored cache entry is not fresh at the moment of the call: a reader that
\* read a stale entry and gets the lock after another request has written a
\* fresh entry does not call the upstream again.
C29_SinLlamadaSiFresco ==
    [][ \A r \in Readers :
          (rpc[r] = "upstream" /\ rpc'[r] # "upstream") =>
              ~ is_fresh(app_cache, CACHE_TTL_SECONDS, tiempo) ]_vars

\* the llave_naval values of a set of roster or projection rows
LlavesDe(filas) == { f.llave_naval : f \in filas }

\* C30: a roster cutover never removes entries from the current
\* projection: a key absent from the newly activated version keeps its
\* previous attributes and its previous version id; after the cutover the
\* projection's keys include every key of the new version, and the rows
\* that point to the new version are exactly those of its keys.
C30_CorteNoQuita ==
    [][ \A j \in Jobs :
          (jtipo[j] = "maestra" /\ jpc[j] = "commit" /\ jpc'[j] = "done") =>
            LET nuevas == { f \in maestra_tiendas_filas' :
                              f.id_version = jver[j] }
            IN /\ \A a \in maestra_tiendas_actual :
                     a.llave_naval \notin LlavesDe(nuevas) =>
                         a \in maestra_tiendas_actual'
               /\ LlavesDe(maestra_tiendas_actual)
                      \subseteq LlavesDe(maestra_tiendas_actual')
               /\ LlavesDe(nuevas) \subseteq LlavesDe(maestra_tiendas_actual')
               /\ LlavesDe({ a \in maestra_tiendas_actual' :
                               a.id_version_ultima = jver[j] })
                      = LlavesDe(nuevas) ]_vars

\* C30 witness: a cutover has committed a version without the key K2, and
\* the projection still holds K2 with the attributes and the id of the
\* older version that brought it
C30_Testigo ==
    \E v \in ActivasM(maestra_tiendas_version) :
        /\ "K2" \notin LlavesDe({ f \in maestra_tiendas_filas :
                                    f.id_version = v.id_version })
        /\ "K1" \in LlavesDe({ a \in maestra_tiendas_actual :
                                 a.id_version_ultima = v.id_version })
        /\ \E a \in maestra_tiendas_actual :
              /\ a.llave_naval = "K2"
              /\ a.id_version_ultima < v.id_version
              /\ a.estado_linea = "Activo"

====
